---- MODULE Spec2Model ----
(***************************************************************************)
(* A model of the request-guard middleware (securityMiddleware,            *)
(* getObjectDepth, sanitizeObject) and of the in-memory user store behind  *)
(* the /users routes.                                                      *)
(*                                                                         *)
(* JavaScript strings are sequences of runs [c |-> character, n |-> run    *)
(* length], a character outside ASCII being written by its code point      *)
(* ("U+00A0", "U+2028"); every character is a run of length 1 except "."   *)
(* which may stand in a longer run, so that strings longer than the 10,000 *)
(* character limit can be written down.  Canon keeps the representation    *)
(* unique (adjacent "." runs are merged).                                  *)
(***************************************************************************)
EXTENDS Integers, Sequences, FiniteSets, TLC

VARIABLES
    contentLength,  \* req.headers['content-length']: [present, v]
    contentType,    \* req.headers['content-type']:   [present, v]
    rawBody,        \* the parsed body as the middleware received it
    body,           \* req.body (mutated in place by sanitizeObject)
    status,         \* status of the response sent by the middleware, 0 = none
    sent,           \* number of res.status(..).json(..) responses sent
    resHeaders,     \* headers set with res.setHeader: set of <<name, value>>
    nextCalls,      \* number of times next() has been called
    threw,          \* the handler ended by an uncaught TypeError
    pc,             \* "pending" before the handler ran, "done" after
    calls,          \* number of sanitizeObject calls applied (SpecSanitize)
    users,          \* the module-level users array of routes/users.js
    last            \* the last /users request and its response

vars == <<contentLength, contentType, rawBody, body, status, sent, resHeaders,
          nextCalls, threw, pc, calls, users, last>>

----------------------------------------------------------------------------
(* Strings *)

\* A string literal: one run of length 1 per character.
S(t) == [i \in 1..Len(t) |-> [c |-> t[i], n |-> 1]]

\* k copies of the character "."
Pad(k) == IF k = 0 THEN <<>> ELSE <<[c |-> ".", n |-> k]>>

\* String.prototype.length
RECURSIVE Length(_)
Length(s) == IF s = <<>> THEN 0 ELSE Head(s).n + Length(Tail(s))

\* The unique representation of a string: adjacent "." runs merged.
RECURSIVE Canon(_)
Canon(s) ==
    IF Len(s) < 2 THEN s
    ELSE IF s[1].c = "." /\ s[2].c = "."
         THEN Canon(<<[c |-> ".", n |-> s[1].n + s[2].n]>> \o SubSeq(s, 3, Len(s)))
         ELSE <<s[1]>> \o Canon(Tail(s))

UpperCase == <<"A","B","C","D","E","F","G","H","I","J","K","L","M",
               "N","O","P","Q","R","S","T","U","V","W","X","Y","Z">>
LowerCase == <<"a","b","c","d","e","f","g","h","i","j","k","l","m",
               "n","o","p","q","r","s","t","u","v","w","x","y","z">>
Digits    == <<"0","1","2","3","4","5","6","7","8","9">>

Range(f) == {f[i] : i \in DOMAIN f}

\* Case folding of the regular expressions' i flag (and of _.toLower).
Lower(ch) ==
    IF ch \in Range(UpperCase)
    THEN LowerCase[CHOOSE i \in DOMAIN UpperCase : UpperCase[i] = ch]
    ELSE ch

\* The white space and line terminator characters of ECMAScript: what \s of a
\* regular expression matches and what parseInt skips.  In order: space, tab,
\* line feed, carriage return, form feed, U+000B (vertical tab), then the
\* characters outside ASCII, each written by its code point.
WhiteSpace ==
    {" ", "\t", "\n", "\r", "\f", "", "U+00A0", "U+1680", "U+FEFF",
     "U+2000", "U+2001", "U+2002", "U+2003", "U+2004", "U+2005", "U+2006",
     "U+2007", "U+2008", "U+2009", "U+200A", "U+2028", "U+2029", "U+202F",
     "U+205F", "U+3000"}

\* \w and \s of the regular expressions
IsWord(ch)  == ch \in Range(UpperCase) \cup Range(LowerCase) \cup Range(Digits) \cup {"_"}
IsSpace(ch) == ch \in WhiteSpace

\* The literal lit (lower-case characters) matches s at index i, ignoring case.
MatchAt(s, i, lit) ==
    /\ i >= 1
    /\ i + Len(lit) - 1 <= Len(s)
    /\ \A k \in 1..Len(lit) : s[i + k - 1].n = 1 /\ Lower(s[i + k - 1].c) = lit[k]

ScriptOpen  == <<"<","s","c","r","i","p","t">>
ScriptClose == <<"<","/","s","c","r","i","p","t",">">>
JsScheme    == <<"j","a","v","a","s","c","r","i","p","t",":">>

\* /<script\b[^<]*(?:(?!<\/script>)<[^<]*)*<\/script>/gi at index i: the index
\* of the last character of the match, 0 when there is no match at i.  The
\* body of the pattern cannot step over a "</script>", so a match runs to the
\* first closing tag that starts at or after i + 7.
ScriptMatchEnd(s, i) ==
    LET closes == {j \in (i + 7)..Len(s) : MatchAt(s, j, ScriptClose)}
    IN  IF /\ MatchAt(s, i, ScriptOpen)
           /\ i + 7 <= Len(s)
           /\ ~IsWord(s[i + 7].c)
           /\ closes # {}
        THEN (CHOOSE j \in closes : \A k \in closes : j <= k) + 8
        ELSE 0

RECURSIVE ReplaceScript(_, _)
ReplaceScript(s, i) ==
    IF i > Len(s) THEN <<>>
    ELSE IF ScriptMatchEnd(s, i) # 0
         THEN ReplaceScript(s, ScriptMatchEnd(s, i) + 1)
         ELSE <<s[i]>> \o ReplaceScript(s, i + 1)

\* .replace(/javascript:/gi, '')
RECURSIVE ReplaceJavascript(_, _)
ReplaceJavascript(s, i) ==
    IF i > Len(s) THEN <<>>
    ELSE IF MatchAt(s, i, JsScheme)
         THEN ReplaceJavascript(s, i + Len(JsScheme))
         ELSE <<s[i]>> \o ReplaceJavascript(s, i + 1)

\* The number of consecutive \w (resp. \s) characters of s from index i on.
RECURSIVE WordRun(_, _)
WordRun(s, i) == IF i <= Len(s) /\ IsWord(s[i].c) THEN 1 + WordRun(s, i + 1) ELSE 0

RECURSIVE SpaceRun(_, _)
SpaceRun(s, i) == IF i <= Len(s) /\ IsSpace(s[i].c) THEN 1 + SpaceRun(s, i + 1) ELSE 0

\* /on\w+\s*=/gi at index i: index of the last character of the match, or 0.
OnMatchEnd(s, i) ==
    LET w  == WordRun(s, i + 2)
        sp == SpaceRun(s, i + 2 + w)
        e  == i + 2 + w + sp
    IN  IF MatchAt(s, i, <<"o","n">>) /\ w >= 1 /\ e <= Len(s) /\ s[e].c = "="
        THEN e ELSE 0

RECURSIVE ReplaceOn(_, _)
ReplaceOn(s, i) ==
    IF i > Len(s) THEN <<>>
    ELSE IF OnMatchEnd(s, i) # 0
         THEN ReplaceOn(s, OnMatchEnd(s, i) + 1)
         ELSE <<s[i]>> \o ReplaceOn(s, i + 1)

MAX_STRING == 10000

\* String.prototype.substring(0, k)
RECURSIVE Substring0(_, _)
Substring0(s, k) ==
    IF s = <<>> \/ k <= 0 THEN <<>>
    ELSE IF Head(s).n <= k
         THEN <<Head(s)>> \o Substring0(Tail(s), k - Head(s).n)
         ELSE <<[c |-> Head(s).c, n |-> k]>>

\* The three replacements of sanitizeObject, in the order the code chains them.
StripPatterns(s) == ReplaceOn(ReplaceJavascript(ReplaceScript(s, 1), 1), 1)

\* What sanitizeObject assigns to a string property.
SanitizeString(s) ==
    LET r == StripPatterns(s)
    IN  Canon(IF Length(r) > MAX_STRING THEN Substring0(r, MAX_STRING) ELSE r)

----------------------------------------------------------------------------
(* Request bodies: the values JSON (or a form parser) can produce *)

\* A value is [t, s, n, kids]: t is its kind, s the characters of a string,
\* n a number (or 1/0 for true/false), kids the own enumerable properties of
\* an object or array, in for-in order, as [k |-> key, v |-> value].
Undefined == [t |-> "undefined", s |-> <<>>, n |-> 0, kids |-> <<>>]
Null      == [t |-> "null",      s |-> <<>>, n |-> 0, kids |-> <<>>]
Str(x)    == [t |-> "string",    s |-> x,    n |-> 0, kids |-> <<>>]
Num(x)    == [t |-> "number",    s |-> <<>>, n |-> x, kids |-> <<>>]
Bool(x)   == [t |-> "boolean",   s |-> <<>>, n |-> IF x THEN 1 ELSE 0, kids |-> <<>>]
Obj(ks)   == [t |-> "object",    s |-> <<>>, n |-> 0, kids |-> ks]

IndexKeys == <<"0", "1", "2", "3">>
Arr(vs)   == [t |-> "array", s |-> <<>>, n |-> 0,
              kids |-> [i \in 1..Len(vs) |-> [k |-> IndexKeys[i], v |-> vs[i]]]]

\* typeof v
TypeOf(v) == IF v.t \in {"null", "object", "array"} THEN "object" ELSE v.t

\* ToBoolean(v)
Truthy(v) ==
    CASE v.t \in {"undefined", "null"} -> FALSE
      [] v.t = "string"  -> v.s # <<>>
      [] v.t \in {"number", "boolean"} -> v.n # 0
      [] OTHER -> TRUE

\* typeof v === 'object' && v !== null
IsContainer(v) == TypeOf(v) = "object" /\ v.t # "null"

\* obj.hasOwnProperty(key) is a call of whatever obj.hasOwnProperty resolves
\* to: an own property of that name (always a JSON value, never a function)
\* hides Object.prototype.hasOwnProperty and the call throws a TypeError.
HasOwnPropertyThrows(obj) ==
    obj.t = "object" /\ \E i \in DOMAIN obj.kids : obj.kids[i].k = "hasOwnProperty"

Max(a, b) == IF a >= b THEN a ELSE b

\* getObjectDepth(obj, currentDepth): [threw, depth]
RECURSIVE getObjectDepth(_, _)
RECURSIVE DepthLoop(_, _, _, _)
getObjectDepth(obj, currentDepth) ==
    IF ~IsContainer(obj)
    THEN [threw |-> FALSE, depth |-> currentDepth]
    ELSE DepthLoop(obj, currentDepth, 1, currentDepth)

\* The for-in loop of getObjectDepth from the i-th key on, maxDepth so far.
DepthLoop(obj, currentDepth, i, maxDepth) ==
    IF i > Len(obj.kids) THEN [threw |-> FALSE, depth |-> maxDepth]
    ELSE IF HasOwnPropertyThrows(obj) THEN [threw |-> TRUE, depth |-> maxDepth]
    ELSE LET d == getObjectDepth(obj.kids[i].v, currentDepth + 1)
         IN  IF d.threw THEN d
             ELSE DepthLoop(obj, currentDepth, i + 1, Max(maxDepth, d.depth))

\* sanitizeObject(obj): [threw, obj], obj being the object after the call (the
\* properties visited before a throw stay sanitized: the mutation is in place).
RECURSIVE sanitizeObject(_)
RECURSIVE SanitizeLoop(_, _)

\* sanitizeObject without the recursive call: only the object's own strings
\* are sanitized.
RECURSIVE ShallowLoop(_, _)
ShallowLoop(obj, i) ==
    IF i > Len(obj.kids) THEN [threw |-> FALSE, obj |-> obj]
    ELSE IF HasOwnPropertyThrows(obj) THEN [threw |-> TRUE, obj |-> obj]
    ELSE IF TypeOf(obj.kids[i].v) = "string"
         THEN ShallowLoop([obj EXCEPT !.kids[i].v = Str(SanitizeString(@.s))], i + 1)
         ELSE ShallowLoop(obj, i + 1)

sanitizeObjectShallow(obj) == ShallowLoop(obj, 1)

sanitizeObject(obj) == SanitizeLoop(obj, 1)

\* The for-in loop recursing into mappings only, never into arrays.
RECURSIVE SanitizeLoopMappingsOnly(_, _)
SanitizeLoopMappingsOnly(obj, i) ==
    IF i > Len(obj.kids) THEN [threw |-> FALSE, obj |-> obj]
    ELSE IF HasOwnPropertyThrows(obj) THEN [threw |-> TRUE, obj |-> obj]
    ELSE LET kid == obj.kids[i].v
             put(v) == [obj EXCEPT !.kids[i].v = v]
         IN  IF TypeOf(kid) = "string"
             THEN SanitizeLoopMappingsOnly(put(Str(SanitizeString(kid.s))), i + 1)
             ELSE IF kid.t = "object"
             THEN LET r == sanitizeObject(kid)
                  IN  IF r.threw THEN [threw |-> TRUE, obj |-> put(r.obj)]
                      ELSE SanitizeLoopMappingsOnly(put(r.obj), i + 1)
             ELSE SanitizeLoopMappingsOnly(obj, i + 1)

\* The for-in loop of sanitizeObject from the i-th key on.
SanitizeLoop(obj, i) ==
    IF i > Len(obj.kids) THEN [threw |-> FALSE, obj |-> obj]
    ELSE IF HasOwnPropertyThrows(obj) THEN [threw |-> TRUE, obj |-> obj]
    ELSE LET kid == obj.kids[i].v
             put(v) == [obj EXCEPT !.kids[i].v = v]
         IN  IF TypeOf(kid) = "string"
             THEN SanitizeLoop(put(Str(SanitizeString(kid.s))), i + 1)
             ELSE IF IsContainer(kid)
             THEN LET r == sanitizeObject(kid)
                  IN  IF r.threw THEN [threw |-> TRUE, obj |-> put(r.obj)]
                      ELSE SanitizeLoop(put(r.obj), i + 1)
             ELSE SanitizeLoop(obj, i + 1)

----------------------------------------------------------------------------
(* Headers *)

Absent     == [present |-> FALSE, v |-> <<>>]
Header(x)  == [present |-> TRUE,  v |-> x]

\* req.headers[name] || dflt
HeaderOr(h, dflt) == IF h.present /\ h.v # <<>> THEN h.v ELSE dflt

\* The value of the digit ch in the given radix, -1 when it is no digit.
DigitVal(ch, radix) ==
    LET hex == <<"a","b","c","d","e","f">>
    IN  IF ch \in Range(Digits)
        THEN (CHOOSE i \in DOMAIN Digits : Digits[i] = ch) - 1
        ELSE IF radix = 16 /\ Lower(ch) \in Range(hex)
             THEN 9 + (CHOOSE i \in DOMAIN hex : hex[i] = Lower(ch))
             ELSE -1

RECURSIVE ParseDigits(_, _, _, _)
ParseDigits(s, i, radix, acc) ==
    IF i <= Len(s) /\ DigitVal(s[i].c, radix) >= 0
    THEN ParseDigits(s, i + 1, radix, acc * radix + DigitVal(s[i].c, radix))
    ELSE acc

\* parseInt(s): [nan, val].  Leading white space is skipped, then a sign, then
\* "0x" selects radix 16; the longest prefix of digits is the value, and no
\* digit at all gives NaN.
ParseInt(s) ==
    LET a    == 1 + SpaceRun(s, 1)
        neg  == a <= Len(s) /\ s[a].c = "-"
        b    == IF a <= Len(s) /\ s[a].c \in {"-", "+"} THEN a + 1 ELSE a
        hex  == MatchAt(s, b, <<"0","x">>)
        d    == IF hex THEN b + 2 ELSE b
        rdx  == IF hex THEN 16 ELSE 10
    IN  IF d <= Len(s) /\ DigitVal(s[d].c, rdx) >= 0
        THEN [nan |-> FALSE,
              val |-> (IF neg THEN -1 ELSE 1) * ParseDigits(s, d, rdx, 0)]
        ELSE [nan |-> TRUE, val |-> 0]

\* String.prototype.includes: lit occurs in s, case-sensitively.
Includes(s, lit) ==
    \E i \in 1..(Len(s) - Len(lit) + 1) : SubSeq(s, i, i + Len(lit) - 1) = lit

Application == S(<<"a","p","p","l","i","c","a","t","i","o","n","/">>)
AppJson     == Application \o S(<<"j","s","o","n">>)
AppForm     == Application \o S(<<"x","-","w","w","w","-","f","o","r","m","-",
                                  "u","r","l","e","n","c","o","d","e","d">>)
Multipart   == S(<<"m","u","l","t","i","p","a","r","t","/","f","o","r","m","-","d","a","t","a">>)

allowedTypes == <<AppJson, AppForm, Multipart>>

MAX_SIZE  == 1048576
MAX_DEPTH == 10

----------------------------------------------------------------------------
(* securityMiddleware *)

RateLimitHeaders == {<<"X-RateLimit-Limit", "100">>, <<"X-Content-Type-Options", "nosniff">>}

\* securityMiddleware with the sanitization moved before the depth check.
MiddlewareSanitizeFirst(clHdr, ctHdr, reqBody) ==
    LET size  == ParseInt(HeaderOr(clHdr, S(<<"0">>)))
        ctype == HeaderOr(ctHdr, <<>>)
        reject(code, b) == [status |-> code, sent |-> 1, headers |-> {}, next |-> 0,
                            threw |-> FALSE, body |-> b]
        pass(b)      == [status |-> 0, sent |-> 0, headers |-> RateLimitHeaders,
                         next |-> 1, threw |-> FALSE, body |-> b]
        throw(b)     == [status |-> 0, sent |-> 0, headers |-> {}, next |-> 0,
                         threw |-> TRUE, body |-> b]
    IN  IF ~size.nan /\ size.val > MAX_SIZE THEN reject(413, reqBody)
        ELSE IF ctype # <<>> /\ ~\E i \in DOMAIN allowedTypes : Includes(ctype, allowedTypes[i])
        THEN reject(415, reqBody)
        ELSE IF Truthy(reqBody) /\ TypeOf(reqBody) = "object"
        THEN LET r == sanitizeObject(reqBody)
                 d == getObjectDepth(reqBody, 0)
             IN  IF r.threw THEN throw(r.obj)
                 ELSE IF d.depth > MAX_DEPTH THEN reject(400, r.obj)
                 ELSE pass(r.obj)
        ELSE pass(reqBody)

\* The outcome of securityMiddleware(req, res, next) on a request:
\* [status, sent, headers, next, threw, body].
Middleware(clHdr, ctHdr, reqBody) ==
    LET size  == ParseInt(HeaderOr(clHdr, S(<<"0">>)))
        ctype == HeaderOr(ctHdr, <<>>)
        reject(code) == [status |-> code, sent |-> 1, headers |-> {}, next |-> 0,
                         threw |-> FALSE, body |-> reqBody]
        pass(b)      == [status |-> 0, sent |-> 0, headers |-> RateLimitHeaders,
                         next |-> 1, threw |-> FALSE, body |-> b]
        throw(b)     == [status |-> 0, sent |-> 0, headers |-> {}, next |-> 0,
                         threw |-> TRUE, body |-> b]
    IN  IF ~size.nan /\ size.val > MAX_SIZE THEN reject(413)
        ELSE IF ctype # <<>> /\ ~\E i \in DOMAIN allowedTypes : Includes(ctype, allowedTypes[i])
        THEN reject(415)
        ELSE IF Truthy(reqBody) /\ TypeOf(reqBody) = "object"
        THEN LET d == getObjectDepth(reqBody, 0)
             IN  IF d.threw THEN throw(reqBody)
                 ELSE IF d.depth > MAX_DEPTH THEN reject(400)
                 ELSE LET r == sanitizeObject(reqBody)
                      IN  IF r.threw THEN throw(r.obj) ELSE pass(r.obj)
        ELSE pass(reqBody)

----------------------------------------------------------------------------
(* The requests the model is run on *)

MaxFrags == 3     \* strings are made of at most MaxFrags fragments
MaxNest  == 12    \* bodies are nested at most MaxNest containers deep

Fragments == <<
    S(<<"j","a","v","a">>),
    S(<<"j","a","v","a","s","c","r","i","p","t",":">>),
    S(<<"S","C","R","I","P","T",":">>),
    S(<<"<","s","c","r","i","p","t",">">>),
    S(<<"<","/","s","c","r","i","p","t",">">>),
    S(<<"o","n","c","l","i","c","k"," ","","=">>),
    S(<<"x">>),
    Pad(MAX_STRING - 2) >>

RECURSIVE Concats(_)
Concats(k) ==
    IF k = 0 THEN {<<>>}
    ELSE Concats(k - 1) \cup {Fragments[i] \o s : i \in DOMAIN Fragments, s \in Concats(k - 1)}

StringInputs == {Canon(s) : s \in Concats(MaxFrags)}

\* The places of a body a string can stand at.
Shape(i, leaf) ==
    CASE i = 1 -> Obj(<<[k |-> "name", v |-> leaf]>>)
      [] i = 2 -> Arr(<<leaf>>)
      [] i = 3 -> Obj(<<[k |-> "tags", v |-> Arr(<<Num(7), leaf>>)]>>)
      [] i = 4 -> Arr(<<Obj(<<[k |-> "bio", v |-> leaf], [k |-> "ok", v |-> Bool(TRUE)]>>)>>)
      [] i = 5 -> Obj(<<[k |-> "a", v |-> leaf], [k |-> "n", v |-> Null],
                        [k |-> "b", v |-> Obj(<<[k |-> "c", v |-> leaf]>>)]>>)
      [] OTHER -> leaf

StringBodies == {Shape(i, Str(s)) : i \in 1..6, s \in StringInputs}

\* leaf below d containers, objects and arrays alternating
RECURSIVE Nest(_, _, _)
Nest(d, leaf, objFirst) ==
    IF d = 0 THEN leaf
    ELSE IF objFirst THEN Obj(<<[k |-> "x", v |-> Nest(d - 1, leaf, FALSE)]>>)
         ELSE Arr(<<Nest(d - 1, leaf, TRUE)>>)

Leaves == {Num(1), Num(0), Bool(FALSE), Null, Obj(<<>>), Arr(<<>>),
           Str(Fragments[2] \o Fragments[7])}

NestedBodies == {Nest(d, leaf, o) : d \in 0..MaxNest, leaf \in Leaves, o \in BOOLEAN}

\* a deep branch beside shallow siblings
WideBodies ==
    {Obj(<<[k |-> "id", v |-> Num(3)], [k |-> "data", v |-> Nest(d, Str(Fragments[6]), FALSE)],
           [k |-> "list", v |-> Arr(<<Null, Str(Fragments[2])>>)]>>) : d \in 0..(MaxNest - 1)}

\* bodies with an own property named hasOwnProperty
ShadowBodies ==
    {Obj(<<[k |-> "data", v |-> b], [k |-> "hasOwnProperty", v |-> Num(1)]>>) :
        b \in {Nest(d, Str(Fragments[2]), TRUE) : d \in 0..(MaxNest - 1)}}
    \cup {Obj(<<[k |-> "hasOwnProperty", v |-> Str(Fragments[7])]>>),
          Arr(<<Str(Fragments[2]), Obj(<<[k |-> "hasOwnProperty", v |-> Null]>>)>>),
          Obj(<<[k |-> "name", v |-> Str(Fragments[2])],
                [k |-> "meta", v |-> Obj(<<[k |-> "hasOwnProperty", v |-> Bool(TRUE)]>>)]>>)}

BodyInputs == {Undefined} \cup StringBodies \cup NestedBodies \cup WideBodies \cup ShadowBodies

\* the bodies every combination of headers is tried with
ProbeBodies ==
    {Undefined, Str(Fragments[2]), Shape(1, Str(Fragments[2])), Shape(2, Str(Fragments[6])),
     Nest(MAX_DEPTH, Num(1), TRUE), Nest(MAX_DEPTH + 1, Num(1), TRUE),
     Nest(MAX_DEPTH + 1, Obj(<<>>), FALSE),
     Obj(<<[k |-> "hasOwnProperty", v |-> Str(Fragments[7])]>>)}

ContentLengthInputs ==
    {Absent, Header(<<>>), Header(S(<<"0">>)),
     Header(S(<<"1","0","4","8","5","7","6">>)),
     Header(S(<<"1","0","4","8","5","7","7">>)),
     Header(S(<<"a","b","c">>)),
     Header(S(<<" ","2","0","0","0","0","0","0">>)),
     Header(S(<<"","2","0","0","0","0","0","0">>)),
     Header(S(<<"U+00A0","U+2028","1","0","4","8","5","7","7">>)),
     Header(S(<<"1","0","4","8","5","7","7","x","y","z">>)),
     Header(S(<<"-","1">>)),
     Header(S(<<"0","x","1","0","0","0","0","1">>)),
     Header(S(<<"1","e","9">>))}

TextPlain == S(<<"t","e","x","t","/","p","l","a","i","n">>)

ContentTypeInputs ==
    {Absent, Header(<<>>), Header(AppJson), Header(AppForm), Header(Multipart),
     Header(AppJson \o S(<<";"," ","c","h","a","r","s","e","t","=","u","t","f","-","8">>)),
     Header(TextPlain),
     Header(S(<<"A","p","p","l","i","c","a","t","i","o","n","/","J","S","O","N">>)),
     Header(TextPlain \o S(<<";"," ","a","=">>) \o AppJson)}

----------------------------------------------------------------------------
(* Spec: one request through securityMiddleware *)

NoUsersState == users = <<>> /\ last = [op |-> "none", status |-> 0]

Init ==
    /\ contentLength \in ContentLengthInputs
    /\ contentType \in ContentTypeInputs
    /\ rawBody \in BodyInputs
    /\ \/ rawBody \in ProbeBodies
       \/ contentLength = Header(S(<<"0">>)) /\ contentType \in {Absent, Header(AppJson)}
    /\ body = rawBody
    /\ status = 0 /\ sent = 0 /\ resHeaders = {} /\ nextCalls = 0 /\ threw = FALSE
    /\ pc = "pending"
    /\ calls = 0
    /\ NoUsersState

securityMiddleware ==
    /\ pc = "pending"
    /\ LET r == Middleware(contentLength, contentType, body)
       IN  /\ status' = r.status
           /\ sent' = sent + r.sent
           /\ resHeaders' = resHeaders \cup r.headers
           /\ nextCalls' = nextCalls + r.next
           /\ threw' = r.threw
           /\ body' = r.body
    /\ pc' = "done"
    /\ UNCHANGED <<contentLength, contentType, rawBody, calls, users, last>>

Next == securityMiddleware

Spec == Init /\ [][Next]_vars

----------------------------------------------------------------------------
(* SpecSanitize: sanitizeObject applied repeatedly to one object *)

MaxCalls == 2

SanitizeInit ==
    /\ body \in {b \in BodyInputs : IsContainer(b)}
    /\ rawBody = body
    /\ calls = 0 /\ threw = FALSE
    /\ contentLength = Absent /\ contentType = Absent
    /\ status = 0 /\ sent = 0 /\ resHeaders = {} /\ nextCalls = 0
    /\ pc = "sanitize"
    /\ NoUsersState

\* One call sanitizeObject(body); rawBody keeps the object as it was before it.
sanitizeObjectCall ==
    /\ pc = "sanitize" /\ calls < MaxCalls /\ ~threw
    /\ LET r == sanitizeObject(body)
       IN  body' = r.obj /\ threw' = r.threw
    /\ rawBody' = body
    /\ calls' = calls + 1
    /\ UNCHANGED <<contentLength, contentType, status, sent, resHeaders, nextCalls,
                   pc, users, last>>

SanitizeNext == sanitizeObjectCall

SpecSanitize == SanitizeInit /\ [][SanitizeNext]_vars

----------------------------------------------------------------------------
(* What the claims speak of, stated without the middleware's own helpers *)

\* The positions of a value: the paths of property indices from the root.
RECURSIVE Paths(_)
Paths(v) ==
    {<<>>} \cup UNION {{<<i>> \o q : q \in Paths(v.kids[i].v)} : i \in DOMAIN v.kids}

RECURSIVE At(_, _)
At(v, path) == IF path = <<>> THEN v ELSE At(v.kids[Head(path)].v, Tail(path))

\* Nesting depth: the largest number of container-traversal steps from the
\* root to a value.
TreeDepth(v) == CHOOSE d \in 0..(MaxNest + 4) :
                    /\ \E q \in Paths(v) : Len(q) = d
                    /\ \A q \in Paths(v) : Len(q) <= d

Keys(v) == [i \in DOMAIN v.kids |-> v.kids[i].k]

\* Requests by what their headers declare.
Oversized ==
    contentLength \in {Header(S(<<"1","0","4","8","5","7","7">>)),
                       Header(S(<<" ","2","0","0","0","0","0","0">>)),
                       Header(S(<<"","2","0","0","0","0","0","0">>)),
                       Header(S(<<"U+00A0","U+2028","1","0","4","8","5","7","7">>)),
                       Header(S(<<"1","0","4","8","5","7","7","x","y","z">>)),
                       Header(S(<<"0","x","1","0","0","0","0","1">>))}
DeclaredWithinLimit ==
    contentLength \in {Header(S(<<"0">>)), Header(S(<<"1","0","4","8","5","7","6">>))}
MissingOrUnparseable ==
    contentLength \in {Absent, Header(<<>>), Header(S(<<"a","b","c">>))}
DisallowedType ==
    contentType \in {Header(TextPlain),
                     Header(S(<<"A","p","p","l","i","c","a","t","i","o","n","/","J","S","O","N">>))}
AllowedType ==
    contentType \in {Header(AppJson), Header(AppForm), Header(Multipart),
                     Header(AppJson \o S(<<";"," ","c","h","a","r","s","e","t","=","u","t","f","-","8">>))}
NoType == contentType \in {Absent, Header(<<>>)}

Done     == pc = "done"
Rejected == Done /\ status \in {413, 415, 400}
Passed   == Done /\ status = 0 /\ sent = 0 /\ ~threw /\ nextCalls = 1
                 /\ resHeaders = RateLimitHeaders

\* body has the shape of rawBody, and differs from it only in that every
\* string at a position in Where is the sanitized form of the string there.
SanitizedAt(Where) ==
    /\ Paths(body) = Paths(rawBody)
    /\ \A q \in Paths(rawBody) :
          LET old == At(rawBody, q)
              new == At(body, q)
          IN  /\ new.t = old.t
              /\ Keys(new) = Keys(old)
              /\ new.n = old.n
              /\ new.s = IF old.t = "string" /\ q \in Where
                         THEN SanitizeString(old.s) ELSE old.s

\* The positions below the root, and those that are elements of an array.
Inner == Paths(rawBody) \ {<<>>}
ArrayElements ==
    {q \in Inner : At(rawBody, SubSeq(q, 1, Len(q) - 1)).t = "array"}

----------------------------------------------------------------------------
(* Claims about securityMiddleware *)

\* C1: the checks run in the order size, content-type, depth and stop at the
\* first failure: an oversized request is answered 413 whatever else it holds;
\* otherwise a disallowed content-type is answered 415 whatever the body;
\* otherwise a container body deeper than 10 is answered 400.  A missing or
\* unparseable content-length never yields 413, and a rejection sends exactly
\* one response.
C1_ChecksInOrder ==
    Done =>
        /\ Oversized => status = 413
        /\ ~Oversized /\ DisallowedType => status = 415
        /\ ~Oversized /\ ~DisallowedType /\ IsContainer(rawBody)
              /\ TreeDepth(rawBody) > MAX_DEPTH => status = 400
        /\ MissingOrUnparseable => status # 413
        /\ status # 0 => sent = 1

\* C2: a request declaring at most 1,048,576 bytes, with an allowed
\* content-type and a body nested at most 10 deep passes: no rejection is
\* sent, both response headers are set and next is called exactly once.
C2_WithinLimitsPasses ==
    Done /\ DeclaredWithinLimit /\ AllowedType /\ TreeDepth(rawBody) <= MAX_DEPTH
        => Passed

\* C3: sanitization is idempotent: a second sanitizeObject call on an object
\* leaves it as the first call left it.
C3_SanitizeIdempotent ==
    pc = "sanitize" /\ calls = 2 /\ ~threw => body = rawBody

\* C4 (as stated): in every request that passes, the forwarded body has the
\* shape of the received one, non-string scalars are unchanged and every
\* string leaf is the sanitized form of the string received at its position.
C4_EveryStringLeafSanitized ==
    Passed => SanitizedAt(Paths(rawBody))

\* C4 (amended): the same for every string inside a mapping or sequence; a
\* body that is not a mapping or sequence (a bare string among them) is
\* forwarded exactly as received.
C4_InnerStringLeavesSanitized ==
    Passed => SanitizedAt(Inner)

\* C4 witness: a passed request in which a string two or more containers deep
\* was changed by the sanitizer and cut to the 10,000 character limit.
C4_Witness ==
    /\ Passed /\ IsContainer(rawBody) /\ body # rawBody
    /\ \E q \in Inner : Len(q) >= 2 /\ At(rawBody, q).t = "string"
                          /\ At(body, q).s # At(rawBody, q).s
                          /\ Length(At(body, q).s) = MAX_STRING

\* C5: a rejection has no partial effects: the body is as received, neither
\* response header is set and next is not called.
C5_RejectionHasNoEffects ==
    Rejected => body = rawBody /\ resHeaders = {} /\ nextCalls = 0

\* C5 witness: a request answered 400 for a body nested 11 deep that holds a
\* string the sanitizer would have changed.
C5_Witness ==
    /\ Rejected /\ status = 400
    /\ TreeDepth(rawBody) = MAX_DEPTH + 1
    /\ \E q \in Inner : At(rawBody, q).t = "string"
                          /\ SanitizeString(At(rawBody, q).s) # At(rawBody, q).s

\* C6: once the size and content-type checks have let the request through,
\* it is answered 400 exactly when the body is a mapping or sequence whose
\* nesting depth exceeds 10; an absent or scalar body is never answered 400.
C6_DepthRejectsExactlyAbove10 ==
    Done /\ ~Oversized /\ ~DisallowedType =>
        (status = 400 <=> IsContainer(rawBody) /\ TreeDepth(rawBody) > MAX_DEPTH)

\* C7: once the size check has let the request through, it is answered 415
\* exactly when the content-type is present, non-empty and contains no allowed
\* type; with a missing or empty content-type and a body within the limits
\* the request passes and its body is sanitized.
C7_TypeRejectsExactlyDisallowed ==
    Done /\ ~Oversized =>
        /\ status = 415 <=> DisallowedType
        /\ NoType /\ TreeDepth(rawBody) <= MAX_DEPTH
              => Passed /\ SanitizedAt(Paths(rawBody))

\* C8 (as stated): the sanitizer does not recurse into sequences: a string
\* that is an element of an array is forwarded as it was received.
C8_ArrayElementsUnsanitized ==
    Passed => \A q \in ArrayElements :
                  At(rawBody, q).t = "string" => At(body, q) = At(rawBody, q)

\* C8 (amended): the sanitizer recurses into sequences as it does into
\* mappings: a string that is an element of an array (or a field of an
\* object that is an element of an array) is forwarded sanitized.
C8_ArrayElementsSanitized ==
    Passed => \A q \in Inner :
                  (\E j \in 1..Len(q) : At(rawBody, SubSeq(q, 1, j - 1)).t = "array")
                      /\ At(rawBody, q).t = "string"
                  => At(body, q) = Str(SanitizeString(At(rawBody, q).s))

\* C8 witness: a passed request in which a string element of an array was
\* changed by the sanitizer.
C8_Witness ==
    Passed /\ \E q \in ArrayElements :
                  At(rawBody, q).t = "string" /\ At(body, q) # At(rawBody, q)

----------------------------------------------------------------------------
(* routes/users.js: the in-memory user store *)

Admin     == S(<<"a","d","m","i","n">>)
User1     == S(<<"u","s","e","r","1">>)
TestUser  == S(<<"t","e","s","t","u","s","e","r">>)
Bob       == S(<<"b","o","b">>)
AtSign        == S(<<"@">>)
ExampleCom == S(<<"e","x","a","m","p","l","e",".","c","o","m">>)
BobMail   == Bob \o AtSign \o S(<<"t","e","s","t",".","o","r","g">>)
Nope      == S(<<"n","o","p","e">>)

\* let users = [...]
InitialUsers == <<
    [id |-> 1, username |-> Admin,    email |-> Admin \o AtSign \o ExampleCom],
    [id |-> 2, username |-> User1,    email |-> User1 \o AtSign \o ExampleCom],
    [id |-> 3, username |-> TestUser, email |-> S(<<"t","e","s","t">>) \o AtSign \o ExampleCom] >>

firstNames == <<
    S(<<"J","o","h","n">>),
    S(<<"J","a","n","e">>),
    S(<<"M","i","c","h","a","e","l">>),
    S(<<"S","a","r","a","h">>),
    S(<<"D","a","v","i","d">>),
    S(<<"E","m","i","l","y">>),
    S(<<"C","h","r","i","s">>),
    S(<<"J","e","s","s","i","c","a">>),
    S(<<"R","y","a","n">>),
    S(<<"A","s","h","l","e","y">>) >>

lastNames == <<
    S(<<"S","m","i","t","h">>),
    S(<<"J","o","h","n","s","o","n">>),
    S(<<"W","i","l","l","i","a","m","s">>),
    S(<<"B","r","o","w","n">>),
    S(<<"J","o","n","e","s">>),
    S(<<"G","a","r","c","i","a">>),
    S(<<"M","i","l","l","e","r">>),
    S(<<"D","a","v","i","s">>),
    S(<<"R","o","d","r","i","g","u","e","z">>),
    S(<<"M","a","r","t","i","n","e","z">>) >>

domains == <<
    S(<<"e","x","a","m","p","l","e",".","c","o","m">>),
    S(<<"t","e","s","t",".","o","r","g">>),
    S(<<"s","a","m","p","l","e",".","n","e","t">>),
    S(<<"d","e","m","o",".","c","o">>) >>
RANDOM_LOW == 100    \* _.random(100, 999)
MAX_RANDOM == 20     \* Math.min(count, 20)

NumFirst   == 1      \* _.sample(firstNames) draws among the first NumFirst names
NumLast    == 1      \* _.sample(lastNames) among the first NumLast
NumDomains == 2      \* _.sample(domains) among the first NumDomains
RandomSpan == 1      \* _.random(100, 999) draws among RANDOM_LOW .. RANDOM_LOW + RandomSpan - 1
MaxCount   == 2      \* generate-random is asked for at most MaxCount users
MaxUsers   == 4      \* the store holds at most MaxUsers users
MaxId      == 4      \* ids stay at or below MaxId

\* `${n}` for a three-digit n
ToString3(n) == S(<<Digits[(n \div 100) + 1], Digits[((n \div 10) % 10) + 1], Digits[(n % 10) + 1]>>)

\* _.toLower
ToLower(s) == [i \in DOMAIN s |-> [s[i] EXCEPT !.c = Lower(s[i].c)]]

\* generateRandomUser() for one outcome of its random draws (id not yet set)
generateRandomUser(first, lastName, n, domain) ==
    LET username == ToLower(first \o lastName \o ToString3(n))
    IN  [username |-> username, email |-> username \o AtSign \o domain]

\* the outcomes of generateRandomUser() the model draws from
RandomUsers ==
    {generateRandomUser(firstNames[f], lastNames[l], n, domains[d]) :
        f \in 1..NumFirst, l \in 1..NumLast,
        n \in RANDOM_LOW..(RANDOM_LOW + RandomSpan - 1), d \in 1..NumDomains}

\* validator.isEmail(e): one "@" with a local part before it and, after it, a
\* domain that has a dot inside.
IsEmail(e) ==
    \E i \in 2..(Len(e) - 3) :
        /\ e[i].c = "@"
        /\ \A j \in DOMAIN e : e[j].c = "@" => j = i
        /\ \E k \in (i + 2)..(Len(e) - 1) : e[k].c = "."

\* _.maxBy(users, 'id').id; reading .id of undefined throws when users is empty
MaxById(us) == CHOOSE m \in {us[i].id : i \in DOMAIN us} : \A i \in DOMAIN us : us[i].id <= m

\* _.findIndex(users, { id: userId }), 0 for -1
FindIndex(us, userId) ==
    IF \E i \in DOMAIN us : us[i].id = userId
    THEN CHOOSE i \in DOMAIN us : us[i].id = userId /\ \A j \in 1..(i - 1) : us[j].id # userId
    ELSE 0

RECURSIVE Filter(_, _)
Filter(us, userId) ==
    IF us = <<>> THEN <<>>
    ELSE (IF Head(us).id # userId THEN <<Head(us)>> ELSE <<>>) \o Filter(Tail(us), userId)

\* The handlers below give [status, users]: the status of the response and the
\* store after the request.  An uncaught TypeError ends the request in the
\* framework's error response, status 500, with the store as it was.

\* POST /
PostUser(us, username, email) ==
    IF username = <<>> \/ email = <<>> THEN [status |-> 400, users |-> us]
    ELSE IF ~IsEmail(email) THEN [status |-> 400, users |-> us]
    ELSE IF \E i \in DOMAIN us : us[i].username = username \/ us[i].email = email
    THEN [status |-> 409, users |-> us]
    ELSE IF us = <<>> THEN [status |-> 500, users |-> us]
    ELSE [status |-> 201,
          users |-> Append(us, [id |-> MaxById(us) + 1, username |-> username, email |-> email])]

\* PUT /:id: [status, users]
PutUser(us, userId, username, email) ==
    LET userIndex == FindIndex(us, userId)
    IN  IF userIndex = 0 THEN [status |-> 404, users |-> us]
        ELSE IF email # <<>> /\ ~IsEmail(email) THEN [status |-> 400, users |-> us]
        ELSE [status |-> 200,
              users |-> [us EXCEPT ![userIndex] =
                            [id |-> @.id,
                             username |-> IF username # <<>> THEN username ELSE @.username,
                             email |-> IF email # <<>> THEN email ELSE @.email]]]

\* DELETE /:id: [status, users]
DeleteUser(us, userId) ==
    IF FindIndex(us, userId) = 0 THEN [status |-> 404, users |-> us]
    ELSE [status |-> 200, users |-> Filter(us, userId)]

\* POST /generate-random for the given outcomes of generateRandomUser, one
\* per iteration of the loop: [status, users]
GenerateRandomUsers(us, drawn) ==
    IF drawn # <<>> /\ us = <<>> THEN [status |-> 500, users |-> us]
    ELSE [status |-> 200,
          users |-> us \o [i \in DOMAIN drawn |->
                              [id |-> MaxById(us) + 1 + (i - 1),
                               username |-> drawn[i].username, email |-> drawn[i].email]]]

UsernameInputs == {<<>>, Admin, Bob}
EmailInputs    == {<<>>, Nope, Admin \o AtSign \o ExampleCom, BobMail}

UsersInit ==
    /\ users = InitialUsers
    /\ last = [op |-> "none", status |-> 0]
    /\ contentLength = Absent /\ contentType = Absent
    /\ rawBody = Undefined /\ body = Undefined
    /\ status = 0 /\ sent = 0 /\ resHeaders = {} /\ nextCalls = 0 /\ threw = FALSE
    /\ pc = "users" /\ calls = 0

MiddlewareVars == <<contentLength, contentType, rawBody, body, status, sent, resHeaders,
                    nextCalls, threw, pc, calls>>

Respond(op, r) ==
    /\ users' = r.users
    /\ last' = [op |-> op, status |-> r.status]
    /\ UNCHANGED MiddlewareVars

WithinBounds(us) ==
    /\ Len(us) <= MaxUsers
    /\ \A i \in DOMAIN us : us[i].id <= MaxId

CreateUser(username, email) ==
    /\ pc = "users"
    /\ WithinBounds(PostUser(users, username, email).users)
    /\ Respond("create", PostUser(users, username, email))

UpdateUser(userId, username, email) ==
    /\ pc = "users"
    /\ Respond("update", PutUser(users, userId, username, email))

RemoveUser(userId) ==
    /\ pc = "users"
    /\ Respond("delete", DeleteUser(users, userId))

\* count = Len(drawn) users are asked for; the loop runs Math.min(count, 20) times
GenerateRandom(drawn) ==
    /\ pc = "users"
    /\ Len(drawn) <= MAX_RANDOM
    /\ WithinBounds(GenerateRandomUsers(users, drawn).users)
    /\ Respond("generate-random", GenerateRandomUsers(users, drawn))

Draws == UNION {[1..n -> RandomUsers] : n \in 0..MaxCount}

UsersNext ==
    \/ \E u \in UsernameInputs, e \in EmailInputs : CreateUser(u, e)
    \/ \E id \in 1..MaxId, u \in UsernameInputs \ {Bob}, e \in EmailInputs \ {BobMail} :
            UpdateUser(id, u, e)
    \/ \E id \in 1..MaxId : RemoveUser(id)
    \/ \E drawn \in Draws : GenerateRandom(drawn)

SpecUsers == UsersInit /\ [][UsersNext]_vars

----------------------------------------------------------------------------
(* Claims about the user store *)

\* C9: after any sequence of create, update, delete and generate-random
\* requests, no two users in the store share a username and no two share an
\* email.
C9_UsernamesAndEmailsUnique ==
    \A i, j \in DOMAIN users :
        i # j => users[i].username # users[j].username /\ users[i].email # users[j].email

\* C10: in every reachable store, the empty one included, a create request
\* with a valid email and a username and email that match no stored user is
\* answered 201 and adds exactly one user, whose id differs from the id of
\* every other user in the store.
C10_CreateSucceeds ==
    [][\A u \in UsernameInputs, e \in EmailInputs :
          (/\ CreateUser(u, e)
           /\ u # <<>> /\ IsEmail(e)
           /\ \A i \in DOMAIN users : users[i].username # u /\ users[i].email # e)
          => /\ last'.status = 201
             /\ Len(users') = Len(users) + 1
             /\ SubSeq(users', 1, Len(users)) = users
             /\ users'[Len(users')].username = u /\ users'[Len(users')].email = e
             /\ \A i \in DOMAIN users : users[i].id # users'[Len(users')].id]_vars

====
